---------------------------- MODULE Spec2Model ----------------------------
(***************************************************************************)
(* Grid-layout optimizer of pauseai-collagen (src/lib/grid_optimizer.py).  *)
(*                                                                         *)
(* The optimizer is a set of pure functions.  Each function is an operator *)
(* computed the way the code computes it; the outer loop of                *)
(* optimize_for_n_images, the sort of get_top_layouts and the body of      *)
(* evaluate_custom_grid are actions of a state machine whose Init draws    *)
(* the call's arguments from bounded sets.                                 *)
(*                                                                         *)
(* Numbers.  Python floats are modelled as exact rationals [num, den]      *)
(* with den >= 0 (a / b is Rat(a, b)); float('inf') is the rational 1/0.   *)
(* Within the bounds used here every float operation of the code is a      *)
(* correctly rounded operation on small integers whose exact results       *)
(* differ by far more than one ulp whenever they differ, so every          *)
(* comparison of the code has the outcome of the exact comparison.         *)
(* fit_cost is a float with an integral value ((pad)*1.0 + (clip)*2.0)     *)
(* and is kept as an integer.                                              *)
(***************************************************************************)
EXTENDS Integers, Sequences, FiniteSets, TLC

(***************************************************************************)
(* Bounds of the model (not program constants).                            *)
(***************************************************************************)
MaxN == 7
MaxTarget == 14
MaxDim == 3
MaxTopN == 3
MaxFactorK == 24
MaxScale == 6

(***************************************************************************)
(* Cost weights, grid_optimizer.py lines 10-15.                            *)
(***************************************************************************)
EMPTY_SLOT_COST == 100000
OMIT_BASE_COST == 1500
PAD_COST == 1
CLIP_COST == 2
DEFAULT_TARGET_SIZE == 4096
\* collage_generator.py line 338: the target size build_collage passes on
MONTAGE_TARGET_SIZE == 4096

(***************************************************************************)
(* Exact rationals standing for Python floats.                             *)
(***************************************************************************)
Rat(n, d) == IF d < 0 THEN [num |-> -n, den |-> -d] ELSE [num |-> n, den |-> d]
FromInt(n) == [num |-> n, den |-> 1]
Inf == [num |-> 1, den |-> 0]
RatLt(a, b) == a.num * b.den < b.num * a.den
RatLe(a, b) == a.num * b.den <= b.num * a.den
RatEq(a, b) == a.num * b.den = b.num * a.den
RatAdd(a, b) == [num |-> a.num * b.den + b.num * a.den, den |-> a.den * b.den]
RatSub(a, b) == [num |-> a.num * b.den - b.num * a.den, den |-> a.den * b.den]
RatScale(c, a) == [num |-> c * a.num, den |-> a.den]
RatAbs(a) == [num |-> IF a.num < 0 THEN -a.num ELSE a.num, den |-> a.den]
RatMin(a, b) == IF RatLt(b, a) THEN b ELSE a
RatMax(a, b) == IF RatLt(a, b) THEN b ELSE a
\* Python int(x) of a float: truncation toward zero
Trunc(a) == IF a.num >= 0 THEN a.num \div a.den ELSE -((-a.num) \div a.den)
\* Python max(0, x) / min(a, b) on integers
Max0(x) == IF x > 0 THEN x ELSE 0
IntMin(a, b) == IF b < a THEN b ELSE a
\* int(math.sqrt(k)) for k >= 0
ISqrt(k) == CHOOSE r \in 0..k : r * r <= k /\ (r + 1) * (r + 1) > k

MAX_CLIP_FRACTION == Rat(33, 100)

(***************************************************************************)
(* list.sort(key=...): stable, ascending by key.  The list is a sequence   *)
(* of [key, item] records (decorate, sort, undecorate).                    *)
(***************************************************************************)
SortByKey(s) ==
    LET n == Len(s)
        keys == [i \in 1..n |-> s[i].key]
        \* position of s[i] in the sorted list: after every smaller key and
        \* after the equal keys that precede it in s
        rank == [i \in 1..n |->
                    Cardinality({j \in 1..n :
                        \/ RatLt(keys[j], keys[i])
                        \/ j < i /\ RatEq(keys[j], keys[i])}) + 1]
        at == [p \in 1..n |-> CHOOSE i \in 1..n : rank[i] = p]
    IN [p \in 1..n |-> s[at[p]]]

\* Python slice s[:n]
SliceTo_OneMore(s, n) == SubSeq(s, 1, IntMin(n + 1, Len(s)))
SliceTo(s, n) ==
    IF n >= 0 THEN SubSeq(s, 1, IntMin(n, Len(s)))
    ELSE SubSeq(s, 1, Max0(Len(s) + n))

(***************************************************************************)
(* find_factorizations, lines 18-50.                                       *)
(***************************************************************************)
\* line 31: range(1, int(math.sqrt(k)) + 1)
RowsRange_NoPlusOne(k) == 1..(ISqrt(k) - 1)
RowsRange(k) == 1..ISqrt(k)

\* line 32: k % rows == 0
Divides_Always(rows, k) == TRUE
Divides(rows, k) == k % rows = 0

\* line 37: ratio < min_ratio or ratio > max_ratio
RatioOutOfRange_LowerOnly(ratio, min_ratio, max_ratio) == RatLt(ratio, min_ratio)
RatioOutOfRange_Strict(ratio, min_ratio, max_ratio) ==
    RatLe(ratio, min_ratio) \/ RatLe(max_ratio, ratio)
RatioOutOfRange(ratio, min_ratio, max_ratio) ==
    RatLt(ratio, min_ratio) \/ RatLt(max_ratio, ratio)

find_factorizations(k, target_ratio, max_candidates, min_ratio, max_ratio) ==
    LET entry(rows) ==
            LET cols == k \div rows
                ratio == Rat(cols, rows)
            IN [key |-> RatAbs(RatSub(ratio, target_ratio)),
                item |-> <<cols, rows>>,
                keep |-> /\ Divides(rows, k)
                         /\ ~RatioOutOfRange(ratio, min_ratio, max_ratio)]
        all == [rows \in RowsRange(k) |-> entry(rows)]
        factorizations == SelectSeq(all, LAMBDA f : f.keep)
        sorted == SliceTo(SortByKey(factorizations), max_candidates)
    IN [i \in 1..Len(sorted) |-> sorted[i].item]

(***************************************************************************)
(* evaluate_grid_with_k, lines 53-112.  None is the Python None.           *)
(***************************************************************************)
None == [none |-> TRUE]

\* line 82
ClipExceeds_OnlyH(clip_fraction_h, clip_fraction_v) ==
    RatLt(MAX_CLIP_FRACTION, clip_fraction_h)
ClipExceeds_Inverted(clip_fraction_h, clip_fraction_v) ==
    RatLe(clip_fraction_h, MAX_CLIP_FRACTION) /\ RatLe(clip_fraction_v, MAX_CLIP_FRACTION)
ClipExceeds(clip_fraction_h, clip_fraction_v) ==
    RatLt(MAX_CLIP_FRACTION, clip_fraction_h) \/ RatLt(MAX_CLIP_FRACTION, clip_fraction_v)

\* lines 63-64: exact 3:4 cell dimensions
CellWidth(k) == 3 * k
CellHeight_Approx(k) == (3 * k * 133) \div 100
CellHeight(k) == 4 * k

\* lines 71-72: padding = max(0, target_size - collage)
Padding_Abs(target_size, collage) ==
    IF target_size >= collage THEN target_size - collage ELSE collage - target_size
Padding(target_size, collage) == Max0(target_size - collage)
\* lines 74-75: clip = max(0, collage - target_size)
Clip(target_size, collage) == Max0(collage - target_size)

\* lines 85-93
Strategy_AxesSwapped(clip_h, clip_v) ==
    IF clip_h > 0 /\ clip_v > 0 THEN "clip_both"
    ELSE IF clip_h > 0 THEN "clip_v_pad_h"
    ELSE IF clip_v > 0 THEN "clip_h_pad_v"
    ELSE "pad_both"
Strategy_Inverted(clip_h, clip_v) ==
    IF clip_h > 0 /\ clip_v > 0 THEN "pad_both"
    ELSE IF clip_h > 0 THEN "clip_h_pad_v"
    ELSE IF clip_v > 0 THEN "clip_v_pad_h"
    ELSE "clip_both"
Strategy(clip_h, clip_v) ==
    IF clip_h > 0 /\ clip_v > 0 THEN "clip_both"
    ELSE IF clip_h > 0 THEN "clip_h_pad_v"
    ELSE IF clip_v > 0 THEN "clip_v_pad_h"
    ELSE "pad_both"

\* line 96
FitCost_ClipOnly(padding_h, padding_v, clip_h, clip_v) == (clip_h + clip_v) * CLIP_COST
FitCost(padding_h, padding_v, clip_h, clip_v) ==
    (padding_h + padding_v) * PAD_COST + (clip_h + clip_v) * CLIP_COST

evaluate_grid_with_k(cols, rows, k, target_size) ==
    LET cell_width == CellWidth(k)
        cell_height == CellHeight(k)
        collage_width == cols * cell_width
        collage_height == rows * cell_height
        padding_h == Padding(target_size, collage_width)
        padding_v == Padding(target_size, collage_height)
        clip_h == Clip(target_size, collage_width)
        clip_v == Clip(target_size, collage_height)
        clip_fraction_h == IF clip_h > 0 THEN Rat(clip_h, 2 * cell_width) ELSE FromInt(0)
        clip_fraction_v == IF clip_v > 0 THEN Rat(clip_v, 2 * cell_height) ELSE FromInt(0)
        strategy == Strategy(clip_h, clip_v)
        fit_cost == FitCost(padding_h, padding_v, clip_h, clip_v)
    IN IF ClipExceeds(clip_fraction_h, clip_fraction_v) THEN None
       ELSE [k |-> k, strategy |-> strategy,
             cell_width |-> cell_width, cell_height |-> cell_height,
             collage_width |-> collage_width, collage_height |-> collage_height,
             padding_h |-> padding_h, padding_v |-> padding_v,
             clip_h |-> clip_h, clip_v |-> clip_v,
             clip_fraction_h |-> clip_fraction_h, clip_fraction_v |-> clip_fraction_v,
             fit_cost |-> fit_cost]

(***************************************************************************)
(* explore_grid_k_range, lines 115-150.  It raises ZeroDivisionError when  *)
(* cols = 0 or rows = 0 (lines 125-126); the operators below are applied   *)
(* only when it does not.                                                  *)
(***************************************************************************)
ExploreRaises(cols, rows) == cols * 3 = 0 \/ rows * 4 = 0

\* lines 125-131 without line 131 (k_min = max(1, k_min))
KMin_NoFloor(cols, rows, target_size) ==
    LET k_width_exact == Rat(target_size, cols * 3)
        k_height_exact == Rat(target_size, rows * 4)
    IN Trunc(RatMin(k_width_exact, k_height_exact)) - 2
\* lines 125-131 with the window starting above the smaller exact scale
KMin_PastBoundary(cols, rows, target_size) ==
    LET k_width_exact == Rat(target_size, cols * 3)
        k_height_exact == Rat(target_size, rows * 4)
    IN Trunc(RatMin(k_width_exact, k_height_exact)) + 1
KMin(cols, rows, target_size) ==
    LET k_width_exact == Rat(target_size, cols * 3)
        k_height_exact == Rat(target_size, rows * 4)
        k_min == Trunc(RatMin(k_width_exact, k_height_exact)) - 2
    IN IF k_min > 1 THEN k_min ELSE 1

KMax(cols, rows, target_size) ==
    LET k_width_exact == Rat(target_size, cols * 3)
        k_height_exact == Rat(target_size, rows * 4)
    IN Trunc(RatMax(k_width_exact, k_height_exact)) + 2

FeasibleConfigs(cols, rows, target_size) ==
    LET k_min == KMin(cols, rows, target_size)
        k_max == KMax(cols, rows, target_size)
        cfgs == [i \in 1..(k_max - k_min + 1) |->
                    evaluate_grid_with_k(cols, rows, k_min + i - 1, target_size)]
    IN SelectSeq(cfgs, LAMBDA cfg : cfg # None)

\* lines 138-150 with "c['k'] > largest_pad_both_k" at line 147
explore_grid_k_range_Strict(cols, rows, target_size) ==
    LET configs == FeasibleConfigs(cols, rows, target_size)
        pad_both_configs == SelectSeq(configs, LAMBDA c : c.strategy = "pad_both")
    IN IF pad_both_configs # <<>>
       THEN LET largest_pad_both_k ==
                    CHOOSE m \in {pad_both_configs[i].k : i \in 1..Len(pad_both_configs)} :
                        \A i \in 1..Len(pad_both_configs) : pad_both_configs[i].k <= m
            IN SelectSeq(configs, LAMBDA c : c.k > largest_pad_both_k)
       ELSE configs
explore_grid_k_range(cols, rows, target_size) ==
    LET configs == FeasibleConfigs(cols, rows, target_size)
        pad_both_configs == SelectSeq(configs, LAMBDA c : c.strategy = "pad_both")
    IN IF pad_both_configs # <<>>
       THEN LET largest_pad_both_k ==
                    CHOOSE m \in {pad_both_configs[i].k : i \in 1..Len(pad_both_configs)} :
                        \A i \in 1..Len(pad_both_configs) : pad_both_configs[i].k <= m
            IN SelectSeq(configs, LAMBDA c : c.k >= largest_pad_both_k)
       ELSE configs


(***************************************************************************)
(* State: one call of an entry point.                                      *)
(*   op            entry point: "optimize" (optimize_for_n_images),        *)
(*                 "top" (get_top_layouts), "custom" (evaluate_custom_grid)*)
(*   args          the call's arguments                                    *)
(*   pc            position in the call                                    *)
(*   k             loop variable of optimize_for_n_images (images used)    *)
(*   factorizations, fi   the shapes of the current k and the index of the *)
(*                 next one to explore                                     *)
(*   all_configs, best_score_so_far   locals of optimize_for_n_images      *)
(*   ret           the returned value: a list, or for evaluate_custom_grid *)
(*                 <<layout>> for a layout and <<>> for None; after        *)
(*                 build_collage, <<build>> with the layout built, the     *)
(*                 number of tiles selected and the size of the master PNG *)
(***************************************************************************)
VARIABLES op, args, pc, k, factorizations, fi, all_configs, best_score_so_far, ret

vars == <<op, args, pc, k, factorizations, fi, all_configs, best_score_so_far, ret>>

\* Arguments the calls are made with
NImagesInputs == (-1)..MaxN
TargetInputs == (-1)..MaxTarget
DimInputs == (-1)..MaxDim
TopNInputs == 1..MaxTopN

SearchScenarios ==
    [n_images : {12, 18, 266}, target_size : {DEFAULT_TARGET_SIZE}]
\* get_top_layouts(1) with the defaults target_size = 4096, top_n = 3
TopScenarios ==
    {[n_images |-> 1, target_size |-> DEFAULT_TARGET_SIZE, top_n |-> 3]}
CustomScenarios == {[cols |-> 5, rows |-> 4, n_images |-> 18, target_size |-> DEFAULT_TARGET_SIZE]}

SearchArgs ==
    [n_images : NImagesInputs, target_size : TargetInputs] \cup SearchScenarios

CustomArgs ==
    [cols : DimInputs, rows : DimInputs, n_images : NImagesInputs, target_size : TargetInputs]
        \cup CustomScenarios

\* direct calls of find_factorizations, explore_grid_k_range and
\* evaluate_grid_with_k
RatioInputs == {Rat(1, 1), Rat(4, 3), Rat(5, 2)}
RatioWindows == {<<Rat(1, 2), FromInt(2)>>, <<Rat(1, 3), FromInt(30)>>}
MaxCandidatesInputs == {1, 2, 5, 8}

FactorArgs ==
    {[k |-> kk, target_ratio |-> t, max_candidates |-> m, min_ratio |-> w[1], max_ratio |-> w[2]] :
        kk \in 1..MaxFactorK, t \in RatioInputs, m \in MaxCandidatesInputs, w \in RatioWindows}

ExploreArgs ==
    [cols : 1..MaxDim, rows : 1..MaxDim, target_size : 1..MaxTarget]
        \cup [cols : {5}, rows : {4}, target_size : {DEFAULT_TARGET_SIZE}]

\* a 4 x 3 grid of 3 x 4 cells is exactly 12 x 12
ExactFitScenarios == {[cols |-> 4, rows |-> 3, k |-> 1, target_size |-> 12]}

EvaluateArgs ==
    [cols : 1..MaxDim, rows : 1..MaxDim, k : 1..MaxScale, target_size : 1..MaxTarget]
        \cup ExactFitScenarios

Init ==
    /\ \/ op = "optimize" /\ args \in SearchArgs
       \/ op = "top" /\ \/ \E a \in SearchArgs, t \in TopNInputs :
                               args = [n_images |-> a.n_images,
                                       target_size |-> a.target_size, top_n |-> t]
                          \/ args \in TopScenarios
       \/ op = "custom" /\ args \in CustomArgs
       \/ op = "factor" /\ args \in FactorArgs
       \/ op = "explore" /\ args \in ExploreArgs
       \/ op = "evaluate" /\ args \in EvaluateArgs
    /\ pc = "call"
    /\ k = 0
    /\ factorizations = <<>>
    /\ fi = 0
    /\ all_configs = <<>>
    /\ best_score_so_far = Inf
    /\ ret = <<>>

(***************************************************************************)
(* optimize_for_n_images, lines 153-194.                                   *)
(***************************************************************************)
Omitted_Swapped(n_images, used) == used - n_images
Omitted(n_images, used) == n_images - used
OmitFraction(n_images, omitted) == Rat(omitted, n_images)
OmitCost(omit_fraction) == RatScale(OMIT_BASE_COST, omit_fraction)
TotalScore_FitOnly(omit_cost, fit_cost) == FromInt(fit_cost)
TotalScore(omit_cost, fit_cost) == RatAdd(omit_cost, FromInt(fit_cost))

\* line 168: if omit_cost > best_score_so_far: break
PruneCond_Never(omit_cost, best) == FALSE
PruneCond_AnyFound(omit_cost, best) == RatLt(best, Inf)
PruneCond_Flipped(omit_cost, best) == RatLt(omit_cost, best)
PruneCond(omit_cost, best) == RatLt(best, omit_cost)

\* lines 182-192 and 244-254: the layout dict
Layout(cols, rows, grid_slots, used_images, omitted, omit_fraction, omit_cost, total_score, cfg) ==
    [cols |-> cols, rows |-> rows, grid_slots |-> grid_slots,
     used_images |-> used_images, omitted_images |-> omitted,
     omit_fraction |-> omit_fraction, omit_cost |-> omit_cost,
     total_score |-> total_score,
     k |-> cfg.k, strategy |-> cfg.strategy,
     cell_width |-> cfg.cell_width, cell_height |-> cfg.cell_height,
     collage_width |-> cfg.collage_width, collage_height |-> cfg.collage_height,
     padding_h |-> cfg.padding_h, padding_v |-> cfg.padding_v,
     clip_h |-> cfg.clip_h, clip_v |-> cfg.clip_v,
     clip_fraction_h |-> cfg.clip_fraction_h, clip_fraction_v |-> cfg.clip_fraction_v,
     fit_cost |-> cfg.fit_cost]

\* lines 174-192 for one (cols, rows): the layouts appended to all_configs
ShapeLayouts(n_images, used, cols, rows, target_size) ==
    LET omitted == Omitted(n_images, used)
        omit_fraction == OmitFraction(n_images, omitted)
        omit_cost == OmitCost(omit_fraction)
        k_configs == explore_grid_k_range(cols, rows, target_size)
    IN [i \in 1..Len(k_configs) |->
            Layout(cols, rows, cols * rows, used, omitted, omit_fraction, omit_cost,
                   TotalScore(omit_cost, k_configs[i].fit_cost), k_configs[i])]

\* lines 179-180 over a list of layouts: the first layout with the least
\* total_score replaces best_score_so_far when it is strictly lower
BestAfter(best, layouts) ==
    IF \A i \in 1..Len(layouts) : ~RatLt(layouts[i].total_score, best) THEN best
    ELSE LET i == CHOOSE i \in 1..Len(layouts) :
                    /\ \A j \in 1..Len(layouts) :
                            RatLe(layouts[i].total_score, layouts[j].total_score)
                    /\ \A j \in 1..(i - 1) :
                            RatLt(layouts[i].total_score, layouts[j].total_score)
         IN layouts[i].total_score

\* lines 159-161
OptimizeEnter ==
    /\ pc = "call" /\ op \in {"optimize", "top"}
    /\ k' = args.n_images
    /\ all_configs' = <<>>
    /\ best_score_so_far' = Inf
    /\ pc' = "loop"
    /\ UNCHANGED <<op, args, factorizations, fi, ret>>

\* leaving the loop: optimize_for_n_images returns all_configs (line 194)
LeaveLoop ==
    IF op = "optimize"
    THEN pc' = "returned" /\ ret' = all_configs
    ELSE pc' = "sort" /\ ret' = ret

\* lines 163-169: the loop head finds omit_cost > best_score_so_far and breaks
LoopBreak ==
    /\ pc = "loop" /\ k >= 1
    /\ PruneCond(OmitCost(OmitFraction(args.n_images, Omitted(args.n_images, k))),
                 best_score_so_far)
    /\ LeaveLoop
    /\ UNCHANGED <<op, args, k, factorizations, fi, all_configs, best_score_so_far>>

\* lines 163-171: the loop head goes on and factorizes k
LoopFactorize ==
    /\ pc = "loop" /\ k >= 1
    /\ ~PruneCond(OmitCost(OmitFraction(args.n_images, Omitted(args.n_images, k))),
                  best_score_so_far)
    /\ factorizations' = find_factorizations(k, Rat(4, 3), 5, Rat(1, 2), FromInt(2))
    /\ fi' = 1
    /\ pc' = "shapes"
    /\ UNCHANGED <<op, args, k, all_configs, best_score_so_far, ret>>

\* lines 173-192: one shape of the current k
ShapeStep ==
    /\ pc = "shapes" /\ fi <= Len(factorizations)
    /\ LET layouts == ShapeLayouts(args.n_images, k, factorizations[fi][1],
                                   factorizations[fi][2], args.target_size)
       IN /\ all_configs' = all_configs \o layouts
          /\ best_score_so_far' = BestAfter(best_score_so_far, layouts)
    /\ fi' = fi + 1
    /\ UNCHANGED <<op, args, pc, k, factorizations, ret>>

\* the inner loop is exhausted: next k of range(n_images, 0, -1)
ShapesDone ==
    /\ pc = "shapes" /\ fi > Len(factorizations)
    /\ k' = k - 1
    /\ pc' = "loop"
    /\ UNCHANGED <<op, args, factorizations, fi, all_configs, best_score_so_far, ret>>

\* range(n_images, 0, -1) is exhausted
LoopEnd ==
    /\ pc = "loop" /\ k < 1
    /\ LeaveLoop
    /\ UNCHANGED <<op, args, k, factorizations, fi, all_configs, best_score_so_far>>

(***************************************************************************)
(* get_top_layouts, lines 197-211.                                         *)
(***************************************************************************)
SortByTotalScore_NoSort(configs) == configs
SortByTotalScore_Descending(configs) ==
    LET sorted == SortByKey([i \in 1..Len(configs) |->
                                [key |-> RatScale(-1, configs[i].total_score),
                                 item |-> configs[i]]])
    IN [i \in 1..Len(sorted) |-> sorted[i].item]
SortByTotalScore(configs) ==
    LET sorted == SortByKey([i \in 1..Len(configs) |->
                                [key |-> configs[i].total_score, item |-> configs[i]]])
    IN [i \in 1..Len(sorted) |-> sorted[i].item]

TopSort ==
    /\ pc = "sort"
    /\ ret' = SliceTo(SortByTotalScore(all_configs), args.top_n)
    /\ pc' = "returned"
    /\ UNCHANGED <<op, args, k, factorizations, fi, all_configs, best_score_so_far>>

(***************************************************************************)
(* evaluate_custom_grid, lines 214-254.                                    *)
(***************************************************************************)
\* min(k_configs, key=fit_cost): the first element with the least fit_cost
MinByFitCost_First(k_configs) == k_configs[1]
MinByFitCost(k_configs) ==
    LET i == CHOOSE i \in 1..Len(k_configs) :
                /\ \A j \in 1..Len(k_configs) : k_configs[i].fit_cost <= k_configs[j].fit_cost
                /\ \A j \in 1..(i - 1) : k_configs[j].fit_cost > k_configs[i].fit_cost
    IN k_configs[i]

\* ZeroDivisionError at line 230 (n_images = 0) or lines 125-126 (cols or rows = 0)
CustomRaises(cols, rows, n_images) == n_images = 0 \/ ExploreRaises(cols, rows)

\* line 228
UsedImages_NoMin(grid_slots, n_images) == grid_slots
UsedImages(grid_slots, n_images) == IntMin(grid_slots, n_images)

evaluate_custom_grid(cols, rows, n_images, target_size) ==
    LET grid_slots == cols * rows
        used_images == UsedImages(grid_slots, n_images)
        omitted == Omitted(n_images, used_images)
        omit_fraction == OmitFraction(n_images, omitted)
        omit_cost == OmitCost(omit_fraction)
        k_configs == explore_grid_k_range(cols, rows, target_size)
    IN IF k_configs = <<>> THEN <<>>
       ELSE LET best_cfg == MinByFitCost(k_configs)
            IN <<Layout(cols, rows, grid_slots, used_images, omitted, omit_fraction, omit_cost,
                        TotalScore(omit_cost, best_cfg.fit_cost), best_cfg)>>

CustomReturn ==
    /\ pc = "call" /\ op = "custom"
    /\ ~CustomRaises(args.cols, args.rows, args.n_images)
    /\ ret' = evaluate_custom_grid(args.cols, args.rows, args.n_images, args.target_size)
    /\ pc' = "returned"
    /\ UNCHANGED <<op, args, k, factorizations, fi, all_configs, best_score_so_far>>

CustomRaise ==
    /\ pc = "call" /\ op = "custom"
    /\ CustomRaises(args.cols, args.rows, args.n_images)
    /\ pc' = "raised"
    /\ UNCHANGED <<op, args, k, factorizations, fi, all_configs, best_score_so_far, ret>>

(***************************************************************************)
(* Direct calls of the helper functions.                                   *)
(***************************************************************************)
\* find_factorizations(k, target_ratio, max_candidates, min_ratio, max_ratio)
FactorCall ==
    /\ pc = "call" /\ op = "factor"
    /\ ret' = find_factorizations(args.k, args.target_ratio, args.max_candidates,
                                  args.min_ratio, args.max_ratio)
    /\ pc' = "returned"
    /\ UNCHANGED <<op, args, k, factorizations, fi, all_configs, best_score_so_far>>

\* explore_grid_k_range(cols, rows, target_size)
ExploreCall ==
    /\ pc = "call" /\ op = "explore"
    /\ ~ExploreRaises(args.cols, args.rows)
    /\ ret' = explore_grid_k_range(args.cols, args.rows, args.target_size)
    /\ pc' = "returned"
    /\ UNCHANGED <<op, args, k, factorizations, fi, all_configs, best_score_so_far>>

\* evaluate_grid_with_k(cols, rows, k, target_size): <<cfg>>, or <<>> for None
EvaluateCall ==
    /\ pc = "call" /\ op = "evaluate"
    /\ LET cfg == evaluate_grid_with_k(args.cols, args.rows, args.k, args.target_size)
       IN ret' = IF cfg = None THEN <<>> ELSE <<cfg>>
    /\ pc' = "returned"
    /\ UNCHANGED <<op, args, k, factorizations, fi, all_configs, best_score_so_far>>

(***************************************************************************)
(* workflow.get_layout_options / validate_custom_layout followed by        *)
(* collage_generator.build_collage, as tools/build_collage.py and          *)
(* webapp/main.py chain them: the layout is one of the lists returned for  *)
(* target_size = 4096 (top_n = 3), and build_collage gets the same         *)
(* n_images.                                                               *)
(***************************************************************************)
\* workflow.py line 38 and line 62: the calls the workflow makes
FromWorkflow ==
    /\ args.target_size = DEFAULT_TARGET_SIZE
    /\ op = "top" => args.top_n = 3

\* number of PNG files in the campaign's tiles directory
AvailableInputs(n_images) == {a \in (n_images - 1)..(n_images + 1) : a >= 0}

\* workflow.py lines 31-35 and 40-41: get_layout_options raises ValueError
LayoutOptionsRaises(n_images, available_tiles, top_layouts) ==
    \/ n_images > available_tiles
    \/ available_tiles = 0
    \/ top_layouts = <<>>

\* collage_generator.py lines 35-36: len of tiles[:limit], all tiles when
\* limit is falsy
get_tiles_oldest_first(available_tiles, limit) ==
    IF limit = 0 THEN available_tiles
    ELSE IF limit > 0 THEN IntMin(limit, available_tiles)
    ELSE Max0(available_tiles + limit)

\* collage_generator.py line 171: padding // 2 pixels on each edge
BorderPerEdge(padding) == padding \div 2

\* collage_generator.py lines 163-189, one axis of the master PNG: the
\* montage of cols x rows cells, "-border" adding the per-edge border on both
\* edges when either axis pads, "-crop" to target_size from the centre when
\* either axis clips (a crop never enlarges)
MasterSize(collage, padding, any_padding, any_clip, target_size) ==
    LET bordered == IF any_padding THEN collage + 2 * BorderPerEdge(padding) ELSE collage
    IN IF any_clip THEN IntMin(bordered, target_size) ELSE bordered

generate_montage(cols, rows, cell_width, cell_height, padding_h, padding_v, clip_h, clip_v, target_size) ==
    LET any_padding == padding_h > 0 \/ padding_v > 0
        any_clip == clip_h > 0 \/ clip_v > 0
    IN [master_width |-> MasterSize(cols * cell_width, padding_h,
                                    any_padding, any_clip, target_size),
        master_height |-> MasterSize(rows * cell_height, padding_v,
                                     any_padding, any_clip, target_size)]

\* collage_generator.py lines 283-357
build_collage(available_tiles, layout, n_images) ==
    LET tiles == get_tiles_oldest_first(available_tiles, n_images)
        master == generate_montage(layout.cols, layout.rows,
                                   layout.cell_width, layout.cell_height,
                                   layout.padding_h, layout.padding_v,
                                   layout.clip_h, layout.clip_v, MONTAGE_TARGET_SIZE)
    IN [layout |-> layout, n_images |-> n_images, tiles |-> tiles,
        master_width |-> master.master_width, master_height |-> master.master_height]

LayoutOptionsRaise ==
    /\ pc = "returned" /\ op = "top" /\ FromWorkflow
    /\ \E available_tiles \in AvailableInputs(args.n_images) :
          LayoutOptionsRaises(args.n_images, available_tiles, ret)
    /\ pc' = "raised"
    /\ UNCHANGED <<op, args, k, factorizations, fi, all_configs, best_score_so_far, ret>>

BuildCollage ==
    /\ pc = "returned" /\ op \in {"top", "custom"} /\ FromWorkflow
    /\ \E available_tiles \in AvailableInputs(args.n_images), i \in 1..Len(ret) :
          /\ op = "top" => ~LayoutOptionsRaises(args.n_images, available_tiles, ret)
          /\ ret' = <<build_collage(available_tiles, ret[i], args.n_images)>>
    /\ pc' = "built"
    /\ UNCHANGED <<op, args, k, factorizations, fi, all_configs, best_score_so_far>>

Next ==
    \/ OptimizeEnter
    \/ LoopBreak
    \/ LoopFactorize
    \/ ShapeStep
    \/ ShapesDone
    \/ LoopEnd
    \/ TopSort
    \/ CustomReturn
    \/ CustomRaise
    \/ FactorCall
    \/ ExploreCall
    \/ EvaluateCall
    \/ LayoutOptionsRaise
    \/ BuildCollage

Spec == Init /\ [][Next]_vars

(***************************************************************************)
(* Vocabulary of the properties.                                           *)
(***************************************************************************)
Range(s) == {s[i] : i \in 1..Len(s)}
IsSearch == op \in {"optimize", "top"}
\* an entry point that returns layouts has returned
Returned == pc = "returned" /\ op \in {"optimize", "top", "custom"}
\* the loop of optimize_for_n_images was left by the break of line 169
BrokeEarly == IsSearch /\ pc \in {"sort", "returned"} /\ k >= 1
ValidSearchInput == IsSearch /\ args.n_images >= 1 /\ args.target_size >= 1
ValidCustomInput ==
    /\ op = "custom"
    /\ args.cols >= 1 /\ args.rows >= 1 /\ args.n_images >= 1 /\ args.target_size >= 1
ValidInput == ValidSearchInput \/ ValidCustomInput
SearchShapes(used) == find_factorizations(used, Rat(4, 3), 5, Rat(1, 2), FromInt(2))
\* every layout the loop body produces for one used-image count
CandidatesFor(n_images, used, target_size) ==
    UNION {Range(ShapeLayouts(n_images, used, f[1], f[2], target_size)) :
                f \in Range(SearchShapes(used))}
\* the layouts of the search with the bound removed
UnprunedCandidates(n_images, target_size) ==
    UNION {CandidatesFor(n_images, used, target_size) : used \in 1..n_images}
\* the fit of (cols, rows, k) stays within MAX_CLIP_FRACTION = 33/100 on both
\* axes: (clip / 2) / cell <= 33/100  <=>  50 * clip <= 33 * cell
WithinClipLimit(cols, rows, scale, target_size) ==
    /\ 50 * Max0(cols * 3 * scale - target_size) <= 33 * 3 * scale
    /\ 50 * Max0(rows * 4 * scale - target_size) <= 33 * 4 * scale

(***************************************************************************)
(* C1.  As claimed: for every requestedImages >= 1 and every positive      *)
(* targetSize the search returns at least one candidate.                   *)
(***************************************************************************)
C1_AsClaimed ==
    (Returned /\ op = "optimize" /\ ValidSearchInput) => ret # <<>>

\* C1 (amended).  For every requestedImages >= 1 and every targetSize >= 2
\* the search returns at least one candidate; for targetSize = 1 it returns
\* the empty list.
C1_SearchNonEmpty ==
    (Returned /\ op = "optimize" /\ ValidSearchInput) =>
        (ret # <<>> <=> args.target_size >= 2)

C1_Witness ==
    /\ Returned /\ op = "optimize" /\ args.n_images = 3 /\ args.target_size = 2
    /\ ret # <<>>

(***************************************************************************)
(* C2.  As claimed: find_factorizations(n, 4/3, 5), as the first iteration *)
(* of the search calls it, returns a list that contains (n, 1).            *)
(***************************************************************************)
FirstFactorization ==
    pc = "shapes" /\ fi = 1 /\ k = args.n_images

C2_AsClaimed ==
    FirstFactorization => <<args.n_images, 1>> \in Range(factorizations)

\* C2 (amended).  The list find_factorizations(n, 4/3, 5) returns contains
\* the single-row shape (n, 1) exactly when n <= 2; for n >= 3 the ratio
\* n/1 is above max_ratio = 2.0 and the shape is filtered out.
C2_SingleRowOnlyUpToTwo ==
    FirstFactorization =>
        (<<args.n_images, 1>> \in Range(factorizations) <=> args.n_images <= 2)

C2_Witness ==
    FirstFactorization /\ args.n_images = 2 /\ factorizations = <<<<2, 1>>>>

(***************************************************************************)
(* C3.  When the loop breaks at used-image count k, every layout any count *)
(* <= k could produce scores strictly above best_score_so_far, and the     *)
(* least total_score found equals the least total_score of the search      *)
(* without the bound.                                                      *)
(***************************************************************************)
C3_PruningSound ==
    BrokeEarly =>
        /\ \A used \in 1..k :
             \A c \in CandidatesFor(args.n_images, used, args.target_size) :
                RatLt(best_score_so_far, c.total_score)
        /\ \E b \in Range(all_configs) :
             /\ RatEq(b.total_score, best_score_so_far)
             /\ \A u \in UnprunedCandidates(args.n_images, args.target_size) :
                    RatLe(b.total_score, u.total_score)

C3_Witness ==
    /\ BrokeEarly /\ Returned /\ k >= 2
    /\ \E used \in 2..k : CandidatesFor(args.n_images, used, args.target_size) # {}
    /\ Len(ret) >= 2

(***************************************************************************)
(* C4.  Every returned candidate has both clip fractions within            *)
(* MAX_CLIP_FRACTION: (clip_h/2)/(3k) <= 0.33 and (clip_v/2)/(4k) <= 0.33. *)
(***************************************************************************)
C4_ClipWithinLimit ==
    Returned =>
        \A c \in Range(ret) :
            /\ c.clip_h = Max0(c.cols * 3 * c.k - args.target_size)
            /\ c.clip_v = Max0(c.rows * 4 * c.k - args.target_size)
            /\ 50 * c.clip_h <= 33 * 3 * c.k
            /\ 50 * c.clip_v <= 33 * 4 * c.k

C4_Witness ==
    /\ Returned /\ ValidInput
    /\ \E c \in Range(ret) : c.clip_v > 0 /\ c.clip_h > 0
    /\ \E c \in Range(ret) :
          ~WithinClipLimit(c.cols, c.rows, c.k + 1, args.target_size)

(***************************************************************************)
(* C5.  For valid input every returned candidate has                       *)
(* used_images = min(n_images, cols*rows), used + omitted = n_images,      *)
(* both counts non-negative and cols*rows >= used_images.                  *)
(***************************************************************************)
C5_UsedAndOmitted ==
    (Returned /\ ValidInput) =>
        \A c \in Range(ret) :
            /\ c.used_images = IntMin(args.n_images, c.cols * c.rows)
            /\ c.used_images + c.omitted_images = args.n_images
            /\ c.used_images >= 0 /\ c.omitted_images >= 0
            /\ c.cols * c.rows >= c.used_images

C5_Witness ==
    /\ Returned /\ ValidInput
    /\ \E c \in Range(ret) : c.omitted_images > 0 /\ c.used_images > 0
    /\ op = "custom"

(***************************************************************************)
(* C6.  Every returned candidate has total_score = omit_cost + fit_cost    *)
(* with omit_cost = OMIT_BASE_COST * omitted_images / n_images.            *)
(***************************************************************************)
C6_TotalScore ==
    Returned =>
        \A c \in Range(ret) :
            /\ c.omit_cost.num * args.n_images
                    = OMIT_BASE_COST * c.omitted_images * c.omit_cost.den
            /\ c.total_score.num * c.omit_cost.den
                    = (c.omit_cost.num + c.fit_cost * c.omit_cost.den) * c.total_score.den
            /\ c.total_score.den # 0 /\ c.omit_cost.den # 0

C6_Witness ==
    /\ Returned /\ ValidInput /\ op = "top"
    /\ \E c \in Range(ret) : c.omitted_images > 0 /\ c.fit_cost > 0

(***************************************************************************)
(* C7.  get_top_layouts returns min(top_n, number of search candidates)    *)
(* candidates in non-decreasing total_score order, and no search candidate *)
(* left out scores lower than a returned one.                              *)
(***************************************************************************)
C7_TopLayouts ==
    (Returned /\ op = "top") =>
        /\ Len(ret) = IntMin(args.top_n, Len(all_configs))
        /\ \A i \in 1..(Len(ret) - 1) : RatLe(ret[i].total_score, ret[i + 1].total_score)
        /\ Range(ret) \subseteq Range(all_configs)
        /\ Cardinality(Range(ret)) = Len(ret)
        /\ \A c \in Range(all_configs) \ Range(ret) :
             \A r \in Range(ret) : ~RatLt(c.total_score, r.total_score)

C7_Witness ==
    /\ Returned /\ op = "top" /\ args.top_n = 2
    /\ Len(all_configs) > 2 /\ Len(ret) = 2
    /\ RatLt(ret[1].total_score, all_configs[1].total_score)

(***************************************************************************)
(* C8.  For valid input evaluate_custom_grid never raises, and it returns  *)
(* None exactly when no k of the window                                    *)
(* [max(1, floor(min(kW,kH)) - 2), floor(max(kW,kH)) + 2] fits within      *)
(* MAX_CLIP_FRACTION on both axes.                                         *)
(***************************************************************************)
ScaleWindow(cols, rows, target_size) ==
    LET kw == target_size \div (cols * 3)
        kh == target_size \div (rows * 4)
        lo == IntMin(kw, kh) - 2
        hi == (IF kw > kh THEN kw ELSE kh) + 2
    IN (IF lo > 1 THEN lo ELSE 1)..hi

C8_NoneIffNoFit ==
    ValidCustomInput =>
        /\ pc # "raised"
        /\ Returned =>
             (ret = <<>> <=>
                \A scale \in ScaleWindow(args.cols, args.rows, args.target_size) :
                    ~WithinClipLimit(args.cols, args.rows, scale, args.target_size))

C8_Witness ==
    /\ ValidCustomInput /\ Returned /\ ret = <<>>
    /\ args.target_size >= 2

(***************************************************************************)
(* C9.  As claimed: evaluate_custom_grid(5, 4, 18) with target size 4096   *)
(* returns grid_slots = 20, used_images = 18, omitted_images = 2 and       *)
(* omit_fraction = 2/18.                                                   *)
(***************************************************************************)
CustomScenarioReturned ==
    /\ Returned /\ op = "custom"
    /\ args = [cols |-> 5, rows |-> 4, n_images |-> 18, target_size |-> DEFAULT_TARGET_SIZE]

C9_AsClaimed ==
    CustomScenarioReturned =>
        /\ Len(ret) = 1
        /\ ret[1].grid_slots = 20 /\ ret[1].used_images = 18
        /\ ret[1].omitted_images = 2
        /\ RatEq(ret[1].omit_fraction, Rat(2, 18))

\* C9 (amended).  evaluate_custom_grid(5, 4, 18) with target size 4096
\* returns grid_slots = 20, used_images = 18, omitted_images = 0 and
\* omit_fraction = 0: the two empty slots are not omitted images.
C9_CustomScenario ==
    CustomScenarioReturned =>
        /\ Len(ret) = 1
        /\ ret[1].grid_slots = 20 /\ ret[1].used_images = 18
        /\ ret[1].omitted_images = 0
        /\ RatEq(ret[1].omit_fraction, FromInt(0))

C9_Witness ==
    CustomScenarioReturned /\ Len(ret) = 1 /\ ret[1].cols = 5 /\ ret[1].rows = 4

(***************************************************************************)
(* C10.  For invalid input (n_images <= 0, or non-positive cols, rows or   *)
(* target_size) no entry point returns a layout candidate: it raises or    *)
(* returns the empty list / None.                                          *)
(***************************************************************************)
C10_NoLayoutForInvalidInput ==
    (Returned /\ ~ValidInput) => ret = <<>>

(***************************************************************************)
(* C11.  Every returned candidate has cell_width = 3k and cell_height = 4k *)
(* for one positive integer k (so cell_height * 3 = cell_width * 4),       *)
(* collage_width = cols * 3k and collage_height = rows * 4k.               *)
(***************************************************************************)
LayoutReturned ==
    pc = "returned" /\ op \in {"optimize", "top", "custom", "explore", "evaluate"}

\* the grid shape of a returned candidate: a field of the layouts of the
\* search and of evaluate_custom_grid, the argument of the two inner functions
ShapeOf(c) ==
    IF op \in {"explore", "evaluate"} THEN <<args.cols, args.rows>>
    ELSE <<c.cols, c.rows>>

C11_ExactCellAspect ==
    LayoutReturned =>
        \A c \in Range(ret) :
            /\ c.k >= 1
            /\ c.cell_width = 3 * c.k /\ c.cell_height = 4 * c.k
            /\ c.cell_height * 3 = c.cell_width * 4
            /\ c.collage_width = ShapeOf(c)[1] * 3 * c.k
            /\ c.collage_height = ShapeOf(c)[2] * 4 * c.k

C11_Witness ==
    /\ LayoutReturned /\ op = "explore"
    /\ \E c \in Range(ret) :
          c.k >= 2 /\ args.rows >= 2 /\ c.collage_height = args.rows * 4 * c.k

(***************************************************************************)
(* C12.  evaluate_custom_grid returns the candidate with the least         *)
(* fit_cost among those explore_grid_k_range returns for the shape, and    *)
(* its k is one of theirs.                                                 *)
(***************************************************************************)
CustomExplored == explore_grid_k_range(args.cols, args.rows, args.target_size)

C12_CustomMinFitCost ==
    (Returned /\ op = "custom" /\ ret # <<>>) =>
        /\ \A c \in Range(CustomExplored) : ret[1].fit_cost <= c.fit_cost
        /\ \E c \in Range(CustomExplored) :
                c.k = ret[1].k /\ c.fit_cost = ret[1].fit_cost

C12_Witness ==
    /\ Returned /\ ValidCustomInput /\ ret # <<>>
    /\ ret[1].fit_cost < CustomExplored[1].fit_cost

(***************************************************************************)
(* C13.  For n_images = 266 and target_size = 4096 the first candidate of  *)
(* get_top_layouts has cols = 19, rows = 14, omitted_images = 0 and        *)
(* omit_cost = 0.                                                          *)
(***************************************************************************)
TopReturnedFor(n_images) ==
    /\ Returned /\ op = "top"
    /\ args.n_images = n_images /\ args.target_size = DEFAULT_TARGET_SIZE

C13_Scenario266 ==
    TopReturnedFor(266) =>
        /\ Len(ret) >= 1
        /\ ret[1].cols = 19 /\ ret[1].rows = 14
        /\ ret[1].omitted_images = 0
        /\ RatEq(ret[1].omit_cost, FromInt(0))

C13_Witness ==
    /\ TopReturnedFor(266) /\ Len(ret) = 3
    /\ ret[1].k = 72 /\ ret[1].fit_cost = 80
    /\ \E c \in Range(all_configs) : c.cols # 19

(***************************************************************************)
(* C14.  For n_images = 12 and target_size = 4096 the list of              *)
(* get_top_layouts (top_n = 3) contains a candidate with cols = 4,         *)
(* rows = 3 and omitted_images = 0.                                        *)
(***************************************************************************)
C14_Scenario12 ==
    (TopReturnedFor(12) /\ args.top_n = 3) =>
        \E c \in Range(ret) : c.cols = 4 /\ c.rows = 3 /\ c.omitted_images = 0

C14_Witness ==
    /\ TopReturnedFor(12) /\ args.top_n = 3 /\ Len(ret) = 3
    /\ ret[1].cols = 4 /\ ret[1].k = 341

(***************************************************************************)
(* C15.  For n_images = 1 (target_size 4096) the best candidate of         *)
(* get_top_layouts has cols = 1, rows = 1 and omitted_images = 0.          *)
(***************************************************************************)
C15_Scenario1 ==
    TopReturnedFor(1) =>
        /\ Len(ret) >= 1
        /\ ret[1].cols = 1 /\ ret[1].rows = 1 /\ ret[1].omitted_images = 0
        /\ \A c \in Range(all_configs) : RatLe(ret[1].total_score, c.total_score)

C15_Witness ==
    TopReturnedFor(1) /\ Len(ret) = 3 /\ ret[1].k = 1024 /\ Len(all_configs) > 300

(***************************************************************************)
(* C16.  As claimed: the total scores get_top_layouts returns are the      *)
(* total scores of the top_n cheapest candidates of the search run without *)
(* the early-termination bound.                                            *)
(***************************************************************************)
Unpruned == UnprunedCandidates(args.n_images, args.target_size)

C16_AsClaimed ==
    (Returned /\ op = "top" /\ ValidSearchInput) =>
        /\ Len(ret) = IntMin(args.top_n, Cardinality(Unpruned))
        /\ \A i \in 1..Len(ret) :
             /\ Cardinality({u \in Unpruned :
                    RatLt(u.total_score, ret[i].total_score)}) <= i - 1
             /\ Cardinality({u \in Unpruned :
                    RatLe(u.total_score, ret[i].total_score)}) >= i

\* C16 (amended).  For every top_n >= 1 the first total score of the list
\* get_top_layouts returns equals the cheapest total score of the search
\* without the bound, the list is empty only when that search finds nothing,
\* and every returned candidate is one of its candidates; from the second
\* position on the pruning can remove candidates that belong among the
\* top_n cheapest.
C16_BestSurvivesPruning ==
    (Returned /\ op = "top" /\ ValidSearchInput) =>
        /\ ret = <<>> <=> Unpruned = {}
        /\ Len(ret) <= args.top_n
        /\ Range(ret) \subseteq Unpruned
        /\ ret # <<>> => \A u \in Unpruned : RatLe(ret[1].total_score, u.total_score)

C16_Witness ==
    /\ Returned /\ op = "top" /\ ValidSearchInput /\ BrokeEarly
    /\ Len(ret) = 1 /\ args.top_n >= 2
    /\ Cardinality(Unpruned) >= 2

(***************************************************************************)
(* C17.  find_factorizations(k, target_ratio, max_candidates, min_ratio,   *)
(* max_ratio) returns exactly the first max_candidates elements of: all    *)
(* (cols, rows) with rows*cols = k, 1 <= rows <= floor(sqrt(k)) and        *)
(* min_ratio <= cols/rows <= max_ratio, ordered by |cols/rows -            *)
(* target_ratio| ascending, ties ordered by smaller rows first.            *)
(***************************************************************************)
FactorReturned == pc = "returned" /\ op = "factor"

\* the pairs the list is drawn from
FactorPairs ==
    {p \in (1..args.k) \X (1..args.k) :
        /\ p[1] * p[2] = args.k
        /\ p[2] * p[2] <= args.k
        /\ args.min_ratio.num * p[2] <= p[1] * args.min_ratio.den
        /\ p[1] * args.max_ratio.den <= args.max_ratio.num * p[2]}

\* |cols/rows - target_ratio| as the integer |cols*den - num*rows| over rows*den
DistNum(p) ==
    LET d == p[1] * args.target_ratio.den - args.target_ratio.num * p[2]
    IN IF d < 0 THEN -d ELSE d

\* p comes before q in the claimed order
FactorBefore(p, q) ==
    \/ DistNum(p) * q[2] < DistNum(q) * p[2]
    \/ DistNum(p) * q[2] = DistNum(q) * p[2] /\ p[2] < q[2]

ExploreReturned == pc = "returned" /\ op = "explore"

WindowFeasible ==
    {scale \in ScaleWindow(args.cols, args.rows, args.target_size) :
        WithinClipLimit(args.cols, args.rows, scale, args.target_size)}

PadsBoth(scale) ==
    /\ args.cols * 3 * scale <= args.target_size
    /\ args.rows * 4 * scale <= args.target_size

WindowPadBoth == {scale \in WindowFeasible : PadsBoth(scale)}

ExpectedScales ==
    IF WindowPadBoth = {} THEN WindowFeasible
    ELSE {scale \in WindowFeasible : \E m \in WindowPadBoth :
                /\ \A q \in WindowPadBoth : q <= m
                /\ scale >= m}

EvaluateReturned == pc = "returned" /\ op = "evaluate"

EvaluatedAt(scale) ==
    evaluate_grid_with_k(args.cols, args.rows, scale, args.target_size)

C19_PadBothDominated ==
    /\ (EvaluateReturned /\ ret # <<>> /\ ret[1].strategy = "pad_both") =>
         \A k1 \in 1..(args.k - 1) :
            (EvaluatedAt(k1) # None /\ EvaluatedAt(k1).strategy = "pad_both") =>
                EvaluatedAt(k1).fit_cost > ret[1].fit_cost
    /\ ExploreReturned =>
         \A c \in Range(FeasibleConfigs(args.cols, args.rows, args.target_size)) :
            \E r \in Range(ret) : r.fit_cost <= c.fit_cost

C19_Witness ==
    /\ EvaluateReturned /\ ret # <<>> /\ ret[1].strategy = "pad_both"
    /\ args.k >= 3
    /\ ret[1].padding_h > 0 /\ ret[1].padding_v > 0

(***************************************************************************)
(* C20.  For a fixed shape and target_size, growing k moves the strategy   *)
(* only forward in the order pad_both, one-axis clip, clip_both, and one   *)
(* shape never shows both clip_h_pad_v and clip_v_pad_h.                   *)
(***************************************************************************)
StrategyOrder(strategy) ==
    IF strategy = "pad_both" THEN 0
    ELSE IF strategy = "clip_both" THEN 2
    ELSE 1

C20_StrategyMonotone ==
    (EvaluateReturned /\ ret # <<>>) =>
        /\ \A k1 \in 1..(args.k - 1) :
             EvaluatedAt(k1) # None =>
                StrategyOrder(EvaluatedAt(k1).strategy) <= StrategyOrder(ret[1].strategy)
        /\ \A k2 \in 1..MaxScale :
             EvaluatedAt(k2) # None =>
                {ret[1].strategy, EvaluatedAt(k2).strategy} # {"clip_h_pad_v", "clip_v_pad_h"}

C20_Witness ==
    /\ EvaluateReturned /\ ret # <<>> /\ ret[1].strategy = "clip_both"
    /\ \E k1 \in 1..(args.k - 1) :
          EvaluatedAt(k1) # None /\ EvaluatedAt(k1).strategy = "pad_both"
    /\ \E k1 \in 1..(args.k - 1) :
          EvaluatedAt(k1) # None /\ EvaluatedAt(k1).strategy = "clip_v_pad_h"

(***************************************************************************)
(* C21.  For every candidate evaluate_grid_with_k produces, padding and    *)
(* clipping on one axis are mutually exclusive and account exactly for the *)
(* size difference: padding_h, clip_h, padding_v, clip_v >= 0,             *)
(* padding_h * clip_h = 0, padding_v * clip_v = 0, padding_h - clip_h =    *)
(* target_size - collage_width, padding_v - clip_v = target_size -         *)
(* collage_height.                                                         *)
(***************************************************************************)
C21_PaddingClipExclusive ==
    LayoutReturned =>
        \A c \in Range(ret) :
            /\ c.padding_h >= 0 /\ c.clip_h >= 0 /\ c.padding_v >= 0 /\ c.clip_v >= 0
            /\ c.padding_h * c.clip_h = 0
            /\ c.padding_v * c.clip_v = 0
            /\ c.padding_h - c.clip_h = args.target_size - c.collage_width
            /\ c.padding_v - c.clip_v = args.target_size - c.collage_height

C21_Witness ==
    /\ LayoutReturned /\ op = "evaluate" /\ ret # <<>>
    /\ ret[1].clip_h > 0 /\ ret[1].padding_v > 0

(***************************************************************************)
(* C22.  The strategy of every candidate is determined by which axes clip: *)
(* clip_both iff clip_h > 0 and clip_v > 0; clip_h_pad_v iff clip_h > 0    *)
(* and clip_v = 0; clip_v_pad_h iff clip_v > 0 and clip_h = 0; pad_both    *)
(* iff clip_h = 0 and clip_v = 0 (an exact fit with no padding included).  *)
(***************************************************************************)
C22_StrategyByClipAxes ==
    LayoutReturned =>
        \A c \in Range(ret) :
            /\ c.strategy = "clip_both" <=> (c.clip_h > 0 /\ c.clip_v > 0)
            /\ c.strategy = "clip_h_pad_v" <=> (c.clip_h > 0 /\ c.clip_v = 0)
            /\ c.strategy = "clip_v_pad_h" <=> (c.clip_v > 0 /\ c.clip_h = 0)
            /\ c.strategy = "pad_both" <=> (c.clip_h = 0 /\ c.clip_v = 0)

C22_Witness ==
    /\ LayoutReturned /\ op = "evaluate" /\ ret # <<>>
    /\ ret[1].strategy = "pad_both"
    /\ ret[1].padding_h = 0 /\ ret[1].padding_v = 0

(***************************************************************************)
(* C23.  For every candidate built, generate_montage's border of           *)
(* padding // 2 pixels per edge is half the axis padding and the master    *)
(* canvas is exactly target_size x target_size.                            *)
(***************************************************************************)
Built == pc = "built"

C23_MasterIsTargetSquare ==
    Built =>
        /\ 2 * BorderPerEdge(ret[1].layout.padding_h) = ret[1].layout.padding_h
        /\ 2 * BorderPerEdge(ret[1].layout.padding_v) = ret[1].layout.padding_v
        /\ ret[1].master_width = MONTAGE_TARGET_SIZE
        /\ ret[1].master_height = MONTAGE_TARGET_SIZE

(***************************************************************************)
(* C24.  The scale window is sufficient: the least fit_cost among the      *)
(* candidates explore_grid_k_range returns equals the least fit_cost over  *)
(* all k >= 1 whose fit is feasible, and when it returns nothing no k >= 1 *)
(* is feasible.                                                            *)
(***************************************************************************)
\* Every k >= target_size clips at least (3k - target_size) / 6k >= 1/3 of a
\* cell horizontally, so 1..target_size holds every feasible k.
AllFeasibleScales ==
    {scale \in 1..args.target_size :
        WithinClipLimit(args.cols, args.rows, scale, args.target_size)}

C24_WindowSufficient ==
    ExploreReturned =>
        /\ ret = <<>> => AllFeasibleScales = {}
        /\ \A scale \in AllFeasibleScales :
             /\ EvaluatedAt(scale) # None
             /\ \E r \in Range(ret) : r.fit_cost <= EvaluatedAt(scale).fit_cost
        /\ \A r \in Range(ret) : r.k \in AllFeasibleScales

C24_Witness ==
    /\ ExploreReturned /\ ret # <<>>
    /\ \E scale \in AllFeasibleScales :
          scale < KMin(args.cols, args.rows, args.target_size)
    /\ \E scale \in AllFeasibleScales : \A r \in Range(ret) : r.k # scale

(***************************************************************************)
(* C25.  build_collage never places more tiles than the layout has grid    *)
(* slots: the number of tiles selected equals the layout's used_images and *)
(* is <= cols * rows.                                                      *)
(***************************************************************************)
C25_TilesWithinGrid ==
    Built =>
        /\ ret[1].tiles = ret[1].layout.used_images
        /\ ret[1].tiles <= ret[1].layout.cols * ret[1].layout.rows

(***************************************************************************)
(* C26.  Every candidate the search returns fills its grid completely:     *)
(* cols * rows = grid_slots = used_images <= n_images.                     *)
(***************************************************************************)
SearchReturned == pc = "returned" /\ IsSearch

C26_SearchFillsGrid ==
    SearchReturned =>
        \A c \in Range(all_configs) \cup Range(ret) :
            /\ c.cols * c.rows = c.grid_slots
            /\ c.grid_slots = c.used_images
            /\ c.used_images <= args.n_images
            /\ c.used_images >= 1

C26_Witness ==
    /\ SearchReturned /\ ret # <<>>
    /\ \E c \in Range(ret) : c.used_images < args.n_images /\ c.rows >= 2

(***************************************************************************)
(* C27.  Every candidate in the list the search returns has omit_cost <=   *)
(* the least total_score of that list.                                     *)
(***************************************************************************)
C27_OmitCostBelowBest ==
    SearchReturned =>
        \A c, d \in Range(all_configs) : RatLe(c.omit_cost, d.total_score)

C27_Witness ==
    /\ SearchReturned /\ BrokeEarly
    /\ \E c \in Range(all_configs) : c.omitted_images > 0
    /\ \E c, d \in Range(all_configs) :
          RatLt(FromInt(0), c.omit_cost) /\ RatLt(c.omit_cost, d.total_score)

(***************************************************************************)
(* C28.  Every shape the search evaluates is at least as wide as tall and  *)
(* at most twice as wide: rows <= cols <= 2 * rows; find_factorizations    *)
(* only lists pairs with rows <= cols, whatever the ratio window.          *)
(***************************************************************************)
C28_ShapeRatio ==
    /\ SearchReturned =>
         \A c \in Range(all_configs) : c.rows <= c.cols /\ c.cols <= 2 * c.rows
    /\ FactorReturned =>
         \A p \in Range(ret) : p[2] <= p[1]

C28_Witness ==
    /\ SearchReturned
    /\ \E c \in Range(all_configs) : c.cols = 2 * c.rows
    /\ \E c \in Range(all_configs) : c.cols = c.rows

(***************************************************************************)
(* C29.  Empty grid slots carry no cost in evaluate_custom_grid: whenever  *)
(* cols * rows >= n_images and a fit exists, the returned candidate has    *)
(* omitted_images = 0, omit_cost = 0 and total_score = fit_cost.           *)
(***************************************************************************)
CustomReturned == pc = "returned" /\ op = "custom"

C30_FeasibleDownwardClosed ==
    /\ (EvaluateReturned /\ ret # <<>>) =>
         \A k1 \in 1..args.k : EvaluatedAt(k1) # None
    /\ ExploreReturned =>
         \A i \in 1..(Len(ret) - 1) : ret[i + 1].k = ret[i].k + 1

C30_Witness ==
    /\ EvaluateReturned /\ ret # <<>> /\ args.k >= 3
    /\ ret[1].clip_h > 0
    /\ EvaluatedAt(args.k + 1) = None

=============================================================================
